---- MODULE Spec2Model ----
(***************************************************************************)
(* Model of toggle-wacom-touchring-mode.py: one invocation of the script   *)
(* validates the PROFILE table, locates and reads the LED status file,     *)
(* queries the active profile, lists the attached devices, advances the    *)
(* mode, writes it back and issues the xsetwacom commands of the new mode. *)
(*                                                                         *)
(* Every external command (ls, qdbus, xsetwacom, echo) and the read of the *)
(* status file is one step; what the outside world answers is an input of  *)
(* the step.  Strings that the script converts (the status digit, the mode *)
(* keys, the output of qdbus and of xsetwacom --list) are modelled as      *)
(* characters and token sequences, and the conversions as operators.       *)
(***************************************************************************)
EXTENDS Integers, Sequences, FiniteSets, TLC

\* ------------------------------------------------------------------ bounds

\* Mode keys a PROFILE table of the validation specification may use: "0".."MaxKey".
MaxKey == 4

\* Longest run of successful invocations under one profile that is tracked.
MaxRun == 4

\* Kernel releases the kernel specification starts from: 2.0.0 .. MaxMajor.MaxMinor.0
MaxMajor == 10

MaxMinor == 19

\* ------------------------------------------------------- program constants

MAX_MODES_PER_PROFILE == 4

\* The literal 4 of `int(f.read(1)) % 4`.
LED_MODULUS == 4

\* Exit status of an invocation that has not exited.
Running == -1

Procs == {1, 2}

\* --------------------------------------------------- str() and int() of digits

Digits == <<"0", "1", "2", "3", "4", "5", "6", "7", "8", "9">>

DigitChars == {Digits[i] : i \in 1..Len(Digits)}

\* str(i) for 0 <= i <= 9
Str(i) == Digits[i + 1]

IsDigit(c) == c \in DigitChars

\* int(c) for a one-character string c that is a digit (int raises ValueError otherwise)
IntOf(c) == CHOOSE i \in 0..9 : Digits[i + 1] = c

\* ------------------------------------------------------------ kernel release

\* ord(c) of the characters a kernel release is written with
Ord(c) == CASE c = "-" -> 45 [] c = "." -> 46 [] OTHER -> 48 + IntOf(c)

\* a < b of two Python 2 str objects, given as their sequences of characters
RECURSIVE str_lt(_, _)
str_lt(a, b) ==
  IF b = << >> THEN FALSE
  ELSE IF a = << >> THEN TRUE
  ELSE IF Head(a) = Head(b) THEN str_lt(Tail(a), Tail(b))
  ELSE Ord(Head(a)) < Ord(Head(b))

compare_kernel_version == <<"3", ".", "1", "7">>

UsbPattern == "/sys/bus/usb/devices/*/wacom_led/status_led0_select"

HidrawPattern == "/sys/class/hidraw/hidraw*/device/wacom_led/status_led0_select"

\* The pattern __init__ hands to ls on a kernel whose os.uname()[2] is `release`.
status_led0_select_path(release) ==
  IF str_lt(release, compare_kernel_version) THEN UsbPattern ELSE HidrawPattern

\* The decimal digits of n, and the release string "major.minor.0".
RECURSIVE Decimal(_)
Decimal(n) == IF n < 10 THEN <<Str(n)>> ELSE Decimal(n \div 10) \o <<Str(n % 10)>>

Release(major, minor) == Decimal(major) \o <<".">> \o Decimal(minor) \o <<".", "0">>

KernelReleases == {Release(major, minor) : major \in 2..MaxMajor, minor \in 0..MaxMinor}

\* The release of the machine the other specifications run on.
HostKernel == Release(4, 4)

\* ------------------------------------------------------------ PROFILE table

\* The cmdlist of a mode, as the sequence of its (parameter key, value) items.
SourceModes ==
  [Default |-> [m \in {"0"} |->
                  [mode_description |-> "Default Mode 0 - Scroll Up/Down",
                   apply_to_dev_type |-> "PAD",
                   cmdlist |-> << <<"AbsWheelUp", "4">>, <<"AbsWheelDown", "5">> >>]],
   Krita |-> [m \in {"0", "1"} |->
                IF m = "0"
                  THEN [mode_description |-> "Krita Mode 0 - Zoom In/Out",
                        apply_to_dev_type |-> "PAD",
                        cmdlist |-> << <<"AbsWheelUp", "4">>, <<"AbsWheelDown", "5">> >>]
                  ELSE [mode_description |-> "Krita Mode 1 - Rotate Right/Left",
                        apply_to_dev_type |-> "PAD",
                        cmdlist |-> << <<"AbsWheelUp", "key 4">>, <<"AbsWheelDown", "key 6">> >>]],
   Gimp |-> [m \in {"0", "1", "2"} |->
               CASE m = "0" -> [mode_description |-> "Gimp Mode 0 - Zoom in/out",
                                apply_to_dev_type |-> "PAD",
                                cmdlist |-> << <<"AbsWheelUp", "key +shift =">>, <<"AbsWheelDown", "key -">> >>]
                 [] m = "1" -> [mode_description |-> "Gimp Mode 1 - Scroll up/down",
                                apply_to_dev_type |-> "PAD",
                                cmdlist |-> << <<"AbsWheelUp", "4">>, <<"AbsWheelDown", "5">> >>]
                 [] OTHER   -> [mode_description |-> "Gimp Mode 2 - Next/Prev Layer",
                                apply_to_dev_type |-> "PAD",
                                cmdlist |-> << <<"AbsWheelUp", "key PgUp">>, <<"AbsWheelDown", "key PgDn">> >>]]]

\* A mode a user adds to a profile by editing the table (the script's header
\* invites it); it binds one parameter of the stylus.
UserMode(m) ==
  [mode_description |-> "User mode",
   apply_to_dev_type |-> "STYLUS",
   cmdlist |-> << <<"Button", m>> >>]

\* The profile `name` edited to hold exactly the mode keys `keys`.
EditedProfile(name, keys) ==
  [m \in keys |-> IF m \in DOMAIN SourceModes[name] THEN SourceModes[name][m] ELSE UserMode(m)]

EditedTable(d, k, g) ==
  [Default |-> EditedProfile("Default", d),
   Krita |-> EditedProfile("Krita", k),
   Gimp |-> EditedProfile("Gimp", g)]

SourceTable == EditedTable({"0"}, {"0", "1"}, {"0", "1", "2"})

\* len(PROFILE[name])
ModeCount(table, name) == Cardinality(DOMAIN table[name])

\* Mutant: the check of the number of modes is left out.
ProfileModesOk_NoMax(modes) ==
  \A i \in 0..(Cardinality(DOMAIN modes) - 1) : Str(i) \in DOMAIN modes

\* The two checks validate_profile_modes makes of one profile.
ProfileModesOk(modes) ==
  /\ Cardinality(DOMAIN modes) <= MAX_MODES_PER_PROFILE
  /\ \A i \in 0..(Cardinality(DOMAIN modes) - 1) : Str(i) \in DOMAIN modes

\* validate_profile_modes: TRUE when no profile makes it call exit(1).
validate_profile_modes(table) == \A key \in DOMAIN table : ProfileModesOk(table[key])

\* ------------------------------------------------------ text of the commands

Whitespace == {" ", "\n"}

\* str.strip() of a text given as its sequence of tokens (words and whitespace characters)
RECURSIVE lstrip(_)
lstrip(s) == IF s # <<>> /\ Head(s) \in Whitespace THEN lstrip(Tail(s)) ELSE s

RECURSIVE rstrip(_)
rstrip(s) == IF s # <<>> /\ s[Len(s)] \in Whitespace THEN rstrip(SubSeq(s, 1, Len(s) - 1)) ELSE s

\* Mutant: the output is used untrimmed.
strip_Untrimmed(s) == s

strip(s) == rstrip(lstrip(s))

\* The profile the script works with after `qdbus ... getProfile` printed `out`.
SelectProfile(table, out) ==
  LET name == strip(out)
  IN  IF Len(name) = 1 /\ name[1] \in DOMAIN table THEN name[1] ELSE "Default"

\* One line of `xsetwacom --list devices` is <<name text, "id:", id, "type:", type>>
\* when it has the shape of the pattern "(.*)\s+id:\s+(\d+)\s+type:\s+(\w+)".
NumberTokens == {"10", "11", "12"}

WordTokens == {"PAD", "STYLUS", "ERASER"}

LineMatches(line) ==
  /\ Len(line) = 5
  /\ line[2] = "id:"
  /\ line[3] \in NumberTokens
  /\ line[4] = "type:"
  /\ line[5] \in WordTokens

\* self.WACOM_DEVICES[type][id] = name
AddDevice(devs, type, id, name) ==
  LET old == IF type \in DOMAIN devs THEN devs[type] ELSE << >>
      new == [i \in (DOMAIN old) \cup {id} |-> IF i = id THEN name ELSE old[i]]
  IN  [t \in (DOMAIN devs) \cup {type} |-> IF t = type THEN new ELSE devs[t]]

\* The loop over cmd.getStdout() that fills self.WACOM_DEVICES.
RECURSIVE ParseDevices(_, _)
ParseDevices(lines, devs) ==
  IF lines = <<>> THEN devs
  ELSE LET line == Head(lines)
       IN  IF LineMatches(line)
             THEN ParseDevices(Tail(lines), AddDevice(devs, line[5], line[3], strip(line[1])))
             ELSE ParseDevices(Tail(lines), devs)

NoDevices == [t \in {} |-> << >>]

\* The order in which .items() of a device dict is walked.
IdOrder == <<"10", "11", "12">>

\* ------------------------------------------------------------- toggle_mode

\* Mutant: the comparison is off by one, the last mode is stepped over.
toggle_next_OffByOne(cur, k) == IF cur <= k - 1 THEN cur + 1 ELSE 0

\* Mutant: the last mode does not wrap to 0.
toggle_next_NoWrap(cur, k) == IF cur <= k - 2 THEN cur + 1 ELSE cur

\* Mutant: the old mode is reduced modulo the number of modes.
toggle_next_ModK(cur, k) == IF k = 0 THEN 0 ELSE ((cur % k) + 1) % k

\* The new CURRENT_MODE computed by toggle_mode from the old one and len(PROFILE[profile]).
toggle_next(cur, k) == IF cur <= k - 2 THEN cur + 1 ELSE 0

\* One `xsetwacom --set` per item of the cmdlist, for one device.
RECURSIVE CmdsForDevice(_, _)
CmdsForDevice(name, cmdlist) ==
  IF cmdlist = <<>> THEN <<>>
  ELSE << [cmd |-> "set", dev |-> name, key |-> Head(cmdlist)[1], val |-> Head(cmdlist)[2]] >>
       \o CmdsForDevice(name, Tail(cmdlist))

\* Mutant: the loops end after the first device of the class.
RECURSIVE CmdsForDevices_FirstOnly(_, _, _)
CmdsForDevices_FirstOnly(ids, devmap, cmdlist) ==
  IF ids = <<>> THEN <<>>
  ELSE IF Head(ids) \in DOMAIN devmap
         THEN CmdsForDevice(devmap[Head(ids)], cmdlist)
         ELSE CmdsForDevices_FirstOnly(Tail(ids), devmap, cmdlist)

\* The nested loops of toggle_mode, as the sequence of commands they execute.
RECURSIVE CmdsForDevices(_, _, _)
CmdsForDevices(ids, devmap, cmdlist) ==
  IF ids = <<>> THEN <<>>
  ELSE (IF Head(ids) \in DOMAIN devmap THEN CmdsForDevice(devmap[Head(ids)], cmdlist) ELSE <<>>)
       \o CmdsForDevices(Tail(ids), devmap, cmdlist)

\* -------------------------------------------------------------------- state

VARIABLES
  PROFILE,                \* the PROFILE dict of the script as the user edited it
  kernel,                 \* os.uname()[2], as its sequence of characters
  led,                    \* first character of the status_led0_select file
  pc,                     \* where each invocation stands
  exitCode,               \* exit status of each invocation, Running until it exits
  errKind,                \* why an invocation exited: "none", "validation", "lookup", "parse", "KeyError"
  readChar,               \* the character f.read(1) returned to the invocation
  CURRENT_MODE,           \* self.CURRENT_MODE
  CURRENT_WACOM_PROFILE,  \* self.CURRENT_WACOM_PROFILE
  WACOM_DEVICES,          \* self.WACOM_DEVICES
  todo,                   \* xsetwacom --set commands the loops of toggle_mode have still to execute
  cmds,                   \* external commands the invocation executed, in order, with their exit status
  qdbusOut,               \* history: what qdbus printed to the invocation
  runProfile,             \* history: profile of the current run of successful invocations
  runStart,               \* history: character the first invocation of the run read
  runLen                  \* history: number of invocations in the run

vars == <<PROFILE, kernel, led, pc, exitCode, errKind, readChar, CURRENT_MODE, CURRENT_WACOM_PROFILE,
          WACOM_DEVICES, todo, cmds, qdbusOut, runProfile, runStart, runLen>>

run == <<runProfile, runStart, runLen>>

\* ----------------------------------------------- what the outside world answers

\* Exit statuses of `ls <pattern>`: 0 when the pattern names a file, 2 when nothing matches.
LsCodes == {0, 2}

\* Exit statuses of `echo <mode> > <file>` and of `xsetwacom --set ...`.
CmdCodes == {0, 1}

\* What the status file can hold before the script ever wrote it.
LedChars == DigitChars \cup {"x", ""}

\* Outputs of `qdbus org.kde.Wacom /Tablet org.kde.Wacom.getProfile`; << >> when the query fails.
QdbusOutputs ==
  { << >>,
    <<"Default", "\n">>,
    <<"Krita", "\n">>,
    <<" ", "Gimp", " ", "\n">>,
    <<"Inkscape", "\n">>,
    <<"Krita", " ", "Gimp", "\n">> }

PadLine(id) == << <<"Wacom Intuos Pro M Pad pad", " ">>, "id:", id, "type:", "PAD" >>

StylusLine == << <<"Wacom Intuos Pro M Pen stylus", " ">>, "id:", "11", "type:", "STYLUS" >>

JunkLine == << <<"Cannot", " ", "open", " ", "display">> >>

\* Outputs of `xsetwacom --list devices`, as lines; << <<>> >> is an empty output.
Listings ==
  { << << >> >>,
    << JunkLine, << >> >>,
    << PadLine("10"), << >> >>,
    << StylusLine, << >> >>,
    << StylusLine, PadLine("10"), PadLine("12"), << >> >> }

\* PROFILE tables the main specification starts from: the source's table, a
\* profile emptied, a gap, a fourth mode and a fifth mode.
MainTables ==
  { EditedTable({"0"}, k, g) :
      k \in { {"0", "1"}, {}, {"0", "2"} },
      g \in { {"0", "1", "2"}, {"0", "1", "2", "3"}, {"0", "1", "2", "3", "4"} } }

\* ------------------------------------------------------------------ actions

Fresh ==
  /\ pc = [p \in Procs |-> "idle"]
  /\ exitCode = [p \in Procs |-> Running]
  /\ errKind = [p \in Procs |-> "none"]
  /\ readChar = [p \in Procs |-> ""]
  /\ CURRENT_MODE = [p \in Procs |-> -1]
  /\ CURRENT_WACOM_PROFILE = [p \in Procs |-> "Default"]
  /\ WACOM_DEVICES = [p \in Procs |-> NoDevices]
  /\ todo = [p \in Procs |-> << >>]
  /\ cmds = [p \in Procs |-> << >>]
  /\ qdbusOut = [p \in Procs |-> << >>]
  /\ runProfile = "Default"
  /\ runStart = ""
  /\ runLen = 0

Init ==
  /\ PROFILE \in MainTables
  /\ kernel = HostKernel
  /\ led \in LedChars
  /\ Fresh

Executed(p, c) == cmds' = [cmds EXCEPT ![p] = Append(@, c)]

External(name, rc) == [cmd |-> name, dev |-> << >>, key |-> "", val |-> "", rc |-> rc]

\* exit(code), or the interpreter leaving on an uncaught exception
Exit(p, code, kind) ==
  /\ pc' = [pc EXCEPT ![p] = "done"]
  /\ exitCode' = [exitCode EXCEPT ![p] = code]
  /\ errKind' = [errKind EXCEPT ![p] = kind]

\* The run of successful invocations is broken by an invocation that fails.
RunBroken == runLen' = 0 /\ UNCHANGED <<runProfile, runStart>>

\* __main__ up to validate_profile_modes()
Validate(p) ==
  /\ pc[p] = "idle"
  /\ IF validate_profile_modes(PROFILE)
       THEN /\ pc' = [pc EXCEPT ![p] = "locate"]
            /\ UNCHANGED <<exitCode, errKind, run>>
       ELSE Exit(p, 1, "validation") /\ RunBroken
  /\ UNCHANGED <<PROFILE, kernel, led, readChar, CURRENT_MODE, CURRENT_WACOM_PROFILE, WACOM_DEVICES,
                 todo, cmds, qdbusOut>>

\* Mutant: the failure of ls is not passed on.
LookupExitCode_Zero(rc) == 0

\* The status exit() is called with when ls failed: cmd.getReturnCode()
LookupExitCode(rc) == rc

\* __init__: `ls <status_led0_select_path>` answers with exit status rc
Locate(p, rc) ==
  /\ pc[p] = "locate"
  /\ Executed(p, [External("ls", rc) EXCEPT !.val = status_led0_select_path(kernel)])
  /\ IF rc = 0
       THEN /\ pc' = [pc EXCEPT ![p] = "open"]
            /\ CURRENT_MODE' = [CURRENT_MODE EXCEPT ![p] = -1]
            /\ CURRENT_WACOM_PROFILE' = [CURRENT_WACOM_PROFILE EXCEPT ![p] = "Default"]
            /\ WACOM_DEVICES' = [WACOM_DEVICES EXCEPT ![p] = NoDevices]
            /\ UNCHANGED <<exitCode, errKind, run>>
       ELSE /\ Exit(p, LookupExitCode(rc), "lookup") /\ RunBroken
            /\ UNCHANGED <<CURRENT_MODE, CURRENT_WACOM_PROFILE, WACOM_DEVICES>>
  /\ UNCHANGED <<PROFILE, kernel, led, readChar, todo, qdbusOut>>

\* __init__: open the file, int(f.read(1)) % 4; any exception leads to exit(1)
ReadLed(p, readable) ==
  /\ pc[p] = "open"
  /\ IF readable /\ IsDigit(led)
       THEN /\ readChar' = [readChar EXCEPT ![p] = led]
            /\ CURRENT_MODE' = [CURRENT_MODE EXCEPT ![p] = IntOf(led) % LED_MODULUS]
            /\ pc' = [pc EXCEPT ![p] = "profile"]
            /\ UNCHANGED <<exitCode, errKind, run>>
       ELSE /\ Exit(p, 1, "parse") /\ RunBroken
            /\ UNCHANGED <<readChar, CURRENT_MODE>>
  /\ UNCHANGED <<PROFILE, kernel, led, CURRENT_WACOM_PROFILE, WACOM_DEVICES, todo, cmds, qdbusOut>>

\* __init__: qdbus prints `out`; fall back to "Default" when it names no profile
GetProfile(p, out) ==
  /\ pc[p] = "profile"
  /\ Executed(p, External("qdbus", IF out = << >> THEN 1 ELSE 0))
  /\ qdbusOut' = [qdbusOut EXCEPT ![p] = out]
  /\ CURRENT_WACOM_PROFILE' = [CURRENT_WACOM_PROFILE EXCEPT ![p] = SelectProfile(PROFILE, out)]
  /\ pc' = [pc EXCEPT ![p] = "discover"]
  /\ UNCHANGED <<PROFILE, kernel, led, exitCode, errKind, readChar, CURRENT_MODE, WACOM_DEVICES, todo, run>>

\* __init__: `xsetwacom --list devices` prints `lines`
Discover(p, lines) ==
  /\ pc[p] = "discover"
  /\ Executed(p, External("list", IF lines = << << >> >> THEN 1 ELSE 0))
  /\ WACOM_DEVICES' = [WACOM_DEVICES EXCEPT ![p] = ParseDevices(lines, NoDevices)]
  /\ pc' = [pc EXCEPT ![p] = "toggle"]
  /\ UNCHANGED <<PROFILE, kernel, led, exitCode, errKind, readChar, CURRENT_MODE, CURRENT_WACOM_PROFILE,
                 todo, qdbusOut, run>>

\* Mutant: toggle_mode reads the status file again instead of using what __init__ read.
ToggleStart_Reread(p) == IntOf(led) % LED_MODULUS

\* The mode toggle_mode advances from: self.CURRENT_MODE as __init__ left it.
ToggleStart(p) == CURRENT_MODE[p]

\* toggle_mode up to the loops: the new mode, `echo <mode> > <file>`, the two dict
\* lookups (an absent key raises KeyError, which nothing catches)
Toggle(p, rc) ==
  LET profile == CURRENT_WACOM_PROFILE[p]
      next == toggle_next(ToggleStart(p), ModeCount(PROFILE, profile))
      known == Str(next) \in DOMAIN PROFILE[profile]
      current_mode == PROFILE[profile][Str(next)]
      attached == current_mode.apply_to_dev_type \in DOMAIN WACOM_DEVICES[p]
      devmap == WACOM_DEVICES[p][current_mode.apply_to_dev_type]
  IN  /\ pc[p] = "toggle"
      /\ CURRENT_MODE' = [CURRENT_MODE EXCEPT ![p] = next]
      /\ Executed(p, [External("echo", rc) EXCEPT !.val = Str(next)])
      /\ led' = IF rc = 0 THEN Str(next) ELSE led
      /\ IF known /\ attached
           THEN /\ todo' = [todo EXCEPT ![p] = CmdsForDevices(IdOrder, devmap, current_mode.cmdlist)]
                /\ pc' = [pc EXCEPT ![p] = "apply"]
                /\ UNCHANGED <<exitCode, errKind, run>>
           ELSE /\ Exit(p, 1, "KeyError") /\ RunBroken
                /\ UNCHANGED todo
      /\ UNCHANGED <<PROFILE, kernel, readChar, CURRENT_WACOM_PROFILE, WACOM_DEVICES, qdbusOut>>

\* Mutant: the loops stop at the first command that fails.
Remaining_StopOnFailure(p, rc) == IF rc = 0 THEN Tail(todo[p]) ELSE << >>

\* What the loops still have to execute after a command returned rc: they go on whatever rc is.
Remaining(p, rc) == Tail(todo[p])

\* toggle_mode, one pass of the inner loop: cmd.execute(command_str); its return code is not read
SetParam(p, rc) ==
  /\ pc[p] = "apply"
  /\ todo[p] # << >>
  /\ Executed(p, [cmd |-> "set", dev |-> Head(todo[p]).dev, key |-> Head(todo[p]).key,
                  val |-> Head(todo[p]).val, rc |-> rc])
  /\ todo' = [todo EXCEPT ![p] = Remaining(p, rc)]
  /\ UNCHANGED <<PROFILE, kernel, led, pc, exitCode, errKind, readChar, CURRENT_MODE,
                 CURRENT_WACOM_PROFILE, WACOM_DEVICES, qdbusOut, run>>

\* The echo command of the invocation wrote the file.
Wrote(p) == \E i \in 1..Len(cmds[p]) : cmds[p][i].cmd = "echo" /\ cmds[p][i].rc = 0

\* toggle_mode returns and the script ends: exit status 0
Finish(p) ==
  /\ pc[p] = "apply"
  /\ todo[p] = << >>
  /\ Exit(p, 0, "none")
  /\ IF ~Wrote(p)
       THEN RunBroken
       ELSE IF runLen > 0 /\ runLen < MaxRun /\ runProfile = CURRENT_WACOM_PROFILE[p]
         THEN runLen' = runLen + 1 /\ UNCHANGED <<runProfile, runStart>>
         ELSE /\ runProfile' = CURRENT_WACOM_PROFILE[p]
              /\ runStart' = readChar[p]
              /\ runLen' = 1
  /\ UNCHANGED <<PROFILE, kernel, led, readChar, CURRENT_MODE, CURRENT_WACOM_PROFILE, WACOM_DEVICES,
                 todo, cmds, qdbusOut>>

\* The next press of the button starts the script again.
Press(p) ==
  /\ pc[p] = "done"
  /\ pc' = [pc EXCEPT ![p] = "idle"]
  /\ exitCode' = [exitCode EXCEPT ![p] = Running]
  /\ errKind' = [errKind EXCEPT ![p] = "none"]
  /\ readChar' = [readChar EXCEPT ![p] = ""]
  /\ CURRENT_MODE' = [CURRENT_MODE EXCEPT ![p] = -1]
  /\ CURRENT_WACOM_PROFILE' = [CURRENT_WACOM_PROFILE EXCEPT ![p] = "Default"]
  /\ WACOM_DEVICES' = [WACOM_DEVICES EXCEPT ![p] = NoDevices]
  /\ todo' = [todo EXCEPT ![p] = << >>]
  /\ cmds' = [cmds EXCEPT ![p] = << >>]
  /\ qdbusOut' = [qdbusOut EXCEPT ![p] = << >>]
  /\ UNCHANGED <<PROFILE, kernel, led, run>>

\* ----------------------------------------------------------- specifications

\* One press at a time: invocations of the script never overlap.
Next ==
  \/ Validate(1)
  \/ \E rc \in LsCodes : Locate(1, rc)
  \/ \E readable \in BOOLEAN : ReadLed(1, readable)
  \/ \E out \in QdbusOutputs : GetProfile(1, out)
  \/ \E lines \in Listings : Discover(1, lines)
  \/ \E rc \in CmdCodes : Toggle(1, rc)
  \/ \E rc \in CmdCodes : SetParam(1, rc)
  \/ Finish(1)
  \/ Press(1)

Spec == Init /\ [][Next]_vars

\* Validation alone, over every table whose Default and Krita profiles use mode
\* keys among "0".."MaxKey".
KeyUniverse == {Str(i) : i \in 0..MaxKey}

InitValidate ==
  /\ PROFILE \in { EditedTable(d, k, {"0", "1", "2"}) :
                     d \in SUBSET KeyUniverse, k \in SUBSET KeyUniverse }
  /\ kernel = HostKernel
  /\ led = "0"
  /\ Fresh

NextValidate == Validate(1)

SpecValidate == InitValidate /\ [][NextValidate]_vars

\* Two presses in quick succession: two invocations of the script run at once,
\* on the source's table, with a tablet attached and every command succeeding.
InitRace ==
  /\ PROFILE = SourceTable
  /\ kernel = HostKernel
  /\ led \in {"0", "1", "2", "3"}
  /\ Fresh

NextRace ==
  \E p \in Procs :
    \/ Validate(p)
    \/ Locate(p, 0)
    \/ ReadLed(p, TRUE)
    \/ \E out \in { <<"Krita", "\n">>, <<"Gimp", "\n">> } : GetProfile(p, out)
    \/ Discover(p, << PadLine("10"), << >> >>)
    \/ Toggle(p, 0)
    \/ SetParam(p, 0)
    \/ Finish(p)
    \/ Press(p)

SpecRace == InitRace /\ [][NextRace]_vars

\* The start of an invocation on every kernel release from 2.0.0 to MaxMajor.MaxMinor.0.
InitKernel ==
  /\ PROFILE = SourceTable
  /\ kernel \in KernelReleases
  /\ led \in LedChars
  /\ Fresh

NextKernel ==
  \/ Validate(1)
  \/ \E rc \in LsCodes : Locate(1, rc)
  \/ \E readable \in BOOLEAN : ReadLed(1, readable)

SpecKernel == InitKernel /\ [][NextKernel]_vars

\* ------------------------------------------------------------------- claims

\* The invocation has executed the echo of toggle_mode.
Toggled(p) == \E i \in 1..Len(cmds[p]) : cmds[p][i].cmd = "echo"

\* The index that echo was given to write.
EchoVal(p) == cmds[p][CHOOSE i \in 1..Len(cmds[p]) : cmds[p][i].cmd = "echo"].val

\* The xsetwacom --set commands the invocation executed, in order.
SetCmds(p) == SelectSeq(cmds[p], LAMBDA c : c.cmd = "set")

\* len(PROFILE[profile]) of the invocation's profile.
K(p) == Cardinality(DOMAIN PROFILE[CURRENT_WACOM_PROFILE[p]])

Min(a, b) == IF a <= b THEN a ELSE b

\* C1: for a profile with k >= 1 modes and a mode c in [0,k) read from the status
\* file, toggle_mode computes (c+1) mod k: it lies in [0,k), and c = k-1 gives 0.
C1_ToggleWraps ==
  \A p \in Procs :
    (Toggled(p) /\ K(p) >= 1 /\ IntOf(readChar[p]) < K(p)) =>
      /\ CURRENT_MODE[p] = (IntOf(readChar[p]) + 1) % K(p)
      /\ CURRENT_MODE[p] \in 0..(K(p) - 1)
      /\ (IntOf(readChar[p]) = K(p) - 1 => CURRENT_MODE[p] = 0)
      /\ EchoVal(p) = Str(CURRENT_MODE[p])

\* Gimp has three modes, the file held 2, the toggle wrapped to 0.
C1_Witness ==
  /\ Toggled(1)
  /\ CURRENT_WACOM_PROFILE[1] = "Gimp"
  /\ K(1) = 3
  /\ readChar[1] = "2"
  /\ CURRENT_MODE[1] = 0
  /\ led = "0"

\* C2 as stated: the persisted digit d in 0..3 is reduced modulo k, and the
\* index written is ((d mod k) + 1) mod k.
C2_StartsModK ==
  \A p \in Procs :
    (Toggled(p) /\ K(p) >= 1 /\ IntOf(readChar[p]) \in 0..3) =>
      EchoVal(p) = Str(((IntOf(readChar[p]) % K(p)) + 1) % K(p))

\* C2 amended: the persisted digit is reduced modulo 4 and everything from the
\* last mode k-1 upwards wraps to 0: the index written is (min(d mod 4, k-1) + 1) mod k.
C2_StartsClamped ==
  \A p \in Procs :
    (Toggled(p) /\ K(p) >= 1) =>
      EchoVal(p) = Str((Min(IntOf(readChar[p]) % 4, K(p) - 1) + 1) % K(p))

\* Krita has two modes and the file held 2 (left by a longer profile): 0 is written, not 1.
C2_Witness ==
  /\ Toggled(1)
  /\ CURRENT_WACOM_PROFILE[1] = "Krita"
  /\ K(1) = 2
  /\ readChar[1] = "2"
  /\ EchoVal(1) = "0"

\* C3: with a table that passes validate_profile_modes and any digit in the
\* status file, the index written is in [0,k) and is a mode of the active profile.
C3_IndexInRange ==
  \A p \in Procs :
    (Toggled(p) /\ validate_profile_modes(PROFILE)) =>
      /\ CURRENT_MODE[p] \in 0..(K(p) - 1)
      /\ EchoVal(p) = Str(CURRENT_MODE[p])
      /\ EchoVal(p) \in DOMAIN PROFILE[CURRENT_WACOM_PROFILE[p]]

\* The new mode is a mode of the profile, and no device of its class is in the device map.
NoDeviceOfClass(p) ==
  /\ Toggled(p)
  /\ EchoVal(p) \in DOMAIN PROFILE[CURRENT_WACOM_PROFILE[p]]
  /\ PROFILE[CURRENT_WACOM_PROFILE[p]][EchoVal(p)].apply_to_dev_type \notin DOMAIN WACOM_DEVICES[p]

\* C4: when the device map has no device of the new mode's class, toggle_mode
\* issues no configuration command, raises no error, and the script exits 0 with
\* the status file holding the new index.
C4_NoDeviceIsNoOp ==
  \A p \in Procs :
    (NoDeviceOfClass(p) /\ pc[p] = "done") =>
      /\ exitCode[p] = 0
      /\ errKind[p] = "none"
      /\ SetCmds(p) = << >>
      /\ (Wrote(p) => led = EchoVal(p))

\* The exit status of the invocation's ls.
LsStatus(p) == cmds[p][CHOOSE i \in 1..Len(cmds[p]) : cmds[p][i].cmd = "ls"].rc

\* C5: a validation failure, a status-file lookup failure (exit status = that of
\* ls) and an unreadable or non-numeric status file (exit status 1) end the
\* invocation with a nonzero status, no write of the status file and no
\* configuration command; a validation failure comes before every external command.
C5_FatalBeforeMutation ==
  \A p \in Procs :
    /\ errKind[p] \in {"validation", "lookup", "parse"} =>
         /\ pc[p] = "done"
         /\ exitCode[p] \notin {0, Running}
         /\ ~Toggled(p)
         /\ SetCmds(p) = << >>
    /\ errKind[p] = "validation" => cmds[p] = << >> /\ ~validate_profile_modes(PROFILE)
    /\ errKind[p] = "lookup" => exitCode[p] = LsStatus(p)
    /\ errKind[p] = "parse" => exitCode[p] = 1
    /\ (pc[p] = "done" /\ ~validate_profile_modes(PROFILE)) => errKind[p] = "validation"
    /\ (pc[p] = "done" /\ cmds[p] # << >> /\ LsStatus(p) # 0) => errKind[p] = "lookup"

\* The status file holds a letter: the second press after a successful one would
\* not differ, so take the first: ls succeeded, the read failed, nothing was written.
C5_Witness ==
  /\ errKind[1] = "parse"
  /\ exitCode[1] = 1
  /\ led = "x"
  /\ Len(cmds[1]) = 1
  /\ LsStatus(1) = 0

\* The mode keys of a profile are exactly "0".."k-1" for its number k of modes.
Contiguous(modes) ==
  DOMAIN modes = {Str(i) : i \in 0..(Cardinality(DOMAIN modes) - 1)}

\* C6: validate_profile_modes accepts a table if and only if every profile has
\* at most 4 modes and its mode keys are exactly 0..k-1; a profile with a gap or
\* with more than 4 modes makes the script exit with a nonzero status.
C6_ValidateAcceptsExactly ==
  \A p \in Procs :
    pc[p] # "idle" =>
      /\ (errKind[p] # "validation") <=>
           \A name \in DOMAIN PROFILE :
             Cardinality(DOMAIN PROFILE[name]) <= 4 /\ Contiguous(PROFILE[name])
      /\ errKind[p] = "validation" => pc[p] = "done" /\ exitCode[p] = 1

\* Krita was given modes 0 and 2 but not 1: the script exited 1.
C6_Witness ==
  /\ DOMAIN PROFILE["Krita"] = {"0", "2"}
  /\ DOMAIN PROFILE["Default"] = {"0"}
  /\ pc[1] = "done"
  /\ errKind[1] = "validation"
  /\ exitCode[1] = 1

\* C7: over successive successful invocations that do not overlap and work with
\* the same profile of k modes, starting from a persisted c in [0,k), the status
\* file holds (c+n) mod k after the n-th invocation: every mode is visited and
\* the file is back at c after k invocations.
C7_CycleAdvances ==
  (pc[1] = "done" /\ exitCode[1] = 0 /\ Wrote(1) /\ runLen > 0) =>
    LET k == Cardinality(DOMAIN PROFILE[runProfile])
        c == IntOf(runStart)
    IN  c < k =>
          /\ led = Str((c + runLen) % k)
          /\ runLen = k => led = runStart

\* Three presses under Gimp starting from mode 1: the file is back at 1.
C7_Witness ==
  /\ pc[1] = "done"
  /\ exitCode[1] = 0
  /\ runProfile = "Gimp"
  /\ Cardinality(DOMAIN PROFILE["Gimp"]) = 3
  /\ runStart = "1"
  /\ runLen = 3
  /\ led = "1"

\* Two invocations have both finished with status 0 after reading the same
\* character under the same profile.
BothReadSame ==
  /\ pc[1] = "done" /\ pc[2] = "done"
  /\ exitCode[1] = 0 /\ exitCode[2] = 0
  /\ readChar[1] = readChar[2]
  /\ CURRENT_WACOM_PROFILE[1] = CURRENT_WACOM_PROFILE[2]

\* C8: nothing locks the status file: when two invocations overlap so that both
\* read the same starting mode c, both write the same next mode, and the two
\* completed invocations leave the file one step after c, not two.
C8_RaceLosesStep ==
  (BothReadSame /\ IntOf(readChar[1]) < K(1)) =>
    /\ EchoVal(1) = EchoVal(2)
    /\ led = Str((IntOf(readChar[1]) + 1) % K(1))

\* Under Gimp both invocations read 0 and both wrote 1: two presses, one step.
C8_Witness ==
  /\ BothReadSame
  /\ CURRENT_WACOM_PROFILE[1] = "Gimp"
  /\ readChar[1] = "0"
  /\ EchoVal(1) = "1" /\ EchoVal(2) = "1"
  /\ led = "1"
  /\ led # Str((0 + 2) % 3)

\* A command as the loops build it, and as the log holds it without its exit status.
Planned(c) == [cmd |-> c.cmd, dev |-> c.dev, key |-> c.key, val |-> c.val]

PlannedSeq(cs) == [i \in 1..Len(cs) |-> Planned(cs[i])]

\* toggle_mode reached its loops: both lookups succeeded.
ReachedLoops(p) ==
  /\ Toggled(p)
  /\ EchoVal(p) \in DOMAIN PROFILE[CURRENT_WACOM_PROFILE[p]]
  /\ PROFILE[CURRENT_WACOM_PROFILE[p]][EchoVal(p)].apply_to_dev_type \in DOMAIN WACOM_DEVICES[p]

\* Number of (device, cmdlist item) pairs of the new mode.
PairCount(p) ==
  LET mode == PROFILE[CURRENT_WACOM_PROFILE[p]][EchoVal(p)]
  IN  Cardinality(DOMAIN WACOM_DEVICES[p][mode.apply_to_dev_type]) * Len(mode.cmdlist)

\* The commands of the new mode for the devices of its class, in the order of the loops.
AllCmds(p) ==
  LET mode == PROFILE[CURRENT_WACOM_PROFILE[p]][EchoVal(p)]
  IN  CmdsForDevices(IdOrder, WACOM_DEVICES[p][mode.apply_to_dev_type], mode.cmdlist)

\* C9: the configuration commands are best effort: when one of them fails the
\* remaining ones are still issued, nothing is undone, and the script exits 0.
C9_BestEffort ==
  \A p \in Procs :
    ReachedLoops(p) =>
      /\ Len(SetCmds(p)) + Len(todo[p]) = PairCount(p)
      /\ PlannedSeq(SetCmds(p)) \o todo[p] = AllCmds(p)
      /\ pc[p] = "done" => /\ exitCode[p] = 0
                           /\ errKind[p] = "none"
                           /\ Len(SetCmds(p)) = PairCount(p)

\* Two pads, two parameters: the first of the four commands failed, the other
\* three were still executed and the script exited 0.
C9_Witness ==
  /\ pc[1] = "done"
  /\ exitCode[1] = 0
  /\ Len(SetCmds(1)) = 4
  /\ SetCmds(1)[1].rc = 1
  /\ SetCmds(1)[4].rc = 0

\* The profiles of the table that `out` names once the whitespace around the name is dropped.
Named(out) ==
  { name \in DOMAIN PROFILE :
      \E i \in 1..Len(out) :
        /\ out[i] = name
        /\ \A j \in 1..Len(out) : j # i => out[j] \in Whitespace }

\* The invocation has executed qdbus.
Queried(p) == \E i \in 1..Len(cmds[p]) : cmds[p][i].cmd = "qdbus"

\* C10: the active profile is the trimmed name the query printed when it is a
\* key of the table, and "Default" otherwise (unknown name, empty output, failed
\* query); the fallback raises no error and the toggle goes on with the mode
\* count of the chosen profile.
C10_ProfileFallback ==
  \A p \in Procs :
    Queried(p) =>
      /\ CURRENT_WACOM_PROFILE[p] \in DOMAIN PROFILE
      /\ Named(qdbusOut[p]) # {} => CURRENT_WACOM_PROFILE[p] \in Named(qdbusOut[p])
      /\ Named(qdbusOut[p]) = {} => CURRENT_WACOM_PROFILE[p] = "Default"
      /\ Len(cmds[p]) = 2 => pc[p] = "discover" /\ exitCode[p] = Running
      /\ (Toggled(p) /\ K(p) >= 1) =>
           EchoVal(p) = Str((Min(IntOf(readChar[p]) % 4, K(p) - 1) + 1) % K(p))

\* qdbus named a profile the table does not have: the script fell back to
\* Default, toggled its single mode and exited 0.
C10_Witness ==
  /\ qdbusOut[1] = <<"Inkscape", "\n">>
  /\ CURRENT_WACOM_PROFILE[1] = "Default"
  /\ Toggled(1)
  /\ EchoVal(1) = "0"
  /\ pc[1] = "done"
  /\ exitCode[1] = 0

\* The new mode of the invocation, and the devices of its class.
NewMode(p) == PROFILE[CURRENT_WACOM_PROFILE[p]][EchoVal(p)]

ClassDevices(p) == WACOM_DEVICES[p][NewMode(p).apply_to_dev_type]

\* The command that binds device id of the class to the j-th item of the new mode's cmdlist.
Binding(p, id, j) ==
  [cmd |-> "set", dev |-> ClassDevices(p)[id],
   key |-> NewMode(p).cmdlist[j][1], val |-> NewMode(p).cmdlist[j][2]]

\* The (device, item) pairs of the new mode, and those a command t binds.
Pairs(p) == (DOMAIN ClassDevices(p)) \X (1..Len(NewMode(p).cmdlist))

PairsBoundBy(p, t) == {pr \in Pairs(p) : Binding(p, pr[1], pr[2]) = t}

\* How many times the invocation executed the command t.
TimesIssued(p, t) ==
  Cardinality({i \in 1..Len(SetCmds(p)) : Planned(SetCmds(p)[i]) = t})

\* Names of the devices of the other classes (a class holds its own ids only).
NamesOfOtherClasses(p) ==
  UNION { {WACOM_DEVICES[p][t][id] : id \in DOMAIN WACOM_DEVICES[p][t]} :
            t \in (DOMAIN WACOM_DEVICES[p]) \ {NewMode(p).apply_to_dev_type} }

\* C11: once the new index is written, toggle_mode issues exactly one
\* configuration command for every pair of a device of the new mode's class and
\* an item of the new mode's cmdlist, naming that device, key and value, and no
\* command for a device of another class or an item of another mode.
C11_OneCommandPerPair ==
  \A p \in Procs :
    /\ (pc[p] = "done" /\ exitCode[p] = 0) =>
         /\ ReachedLoops(p)
         /\ Len(SetCmds(p)) = Cardinality(Pairs(p))
         /\ \A pr \in Pairs(p) :
              TimesIssued(p, Binding(p, pr[1], pr[2]))
                = Cardinality(PairsBoundBy(p, Binding(p, pr[1], pr[2])))
         /\ \A i \in 1..Len(SetCmds(p)) :
              /\ PairsBoundBy(p, Planned(SetCmds(p)[i])) # {}
              /\ SetCmds(p)[i].dev \notin NamesOfOtherClasses(p)
    /\ \A i \in 1..Len(cmds[p]) :
         cmds[p][i].cmd = "set" => \E j \in 1..(i - 1) : cmds[p][j].cmd = "echo"
    /\ (pc[p] = "done" /\ exitCode[p] # 0) => SetCmds(p) = << >>

\* Krita, mode 0 persisted, a stylus and two pads attached: mode 1 was written
\* and its two bindings were issued for each pad, none for the stylus.
C11_Witness ==
  /\ pc[1] = "done"
  /\ exitCode[1] = 0
  /\ CURRENT_WACOM_PROFILE[1] = "Krita"
  /\ readChar[1] = "0"
  /\ EchoVal(1) = "1"
  /\ led = "1"
  /\ DOMAIN WACOM_DEVICES[1] = {"PAD", "STYLUS"}
  /\ DOMAIN WACOM_DEVICES[1]["PAD"] = {"10", "12"}
  /\ Len(SetCmds(1)) = 4
  /\ \A i \in 1..4 : SetCmds(1)[i].val \in {"key 4", "key 6"}

\* The number a sequence of decimal digits denotes.
RECURSIVE Number(_)
Number(ds) == IF ds = << >> THEN 0 ELSE 10 * Number(SubSeq(ds, 1, Len(ds) - 1)) + IntOf(ds[Len(ds)])

\* The characters of s before its first ".", and those after it.
RECURSIVE BeforeDot(_)
BeforeDot(s) == IF s = << >> \/ Head(s) = "." THEN << >> ELSE <<Head(s)>> \o BeforeDot(Tail(s))

RECURSIVE AfterDot(_)
AfterDot(s) == IF s = << >> THEN << >> ELSE IF Head(s) = "." THEN Tail(s) ELSE AfterDot(Tail(s))

Major(release) == Number(BeforeDot(release))

Minor(release) == Number(BeforeDot(AfterDot(release)))

\* The release is numerically older than 3.17.
OlderThan317(release) ==
  Major(release) < 3 \/ (Major(release) = 3 /\ Minor(release) < 17)

\* The invocation has executed ls, and the pattern it gave to ls.
Located(p) == \E i \in 1..Len(cmds[p]) : cmds[p][i].cmd = "ls"

LsPattern(p) == cmds[p][CHOOSE i \in 1..Len(cmds[p]) : cmds[p][i].cmd = "ls"].val

\* C12: on every kernel release numerically older than 3.17 (3.2, 3.9, 2.6) the
\* USB-devices pattern is given to ls, and on every release 3.17 or newer
\* (3.17, 4.4, 10.0) the hidraw pattern.
C12_PatternByKernelVersion ==
  \A p \in Procs :
    Located(p) =>
      LsPattern(p) = IF OlderThan317(kernel) THEN UsbPattern ELSE HidrawPattern

====
